---- MODULE Spec2Model ----
(***************************************************************************)
(* Lead-processing agent: the lead router (lib/lead-routing.ts) and the    *)
(* qualification step that consults it (lib/services.ts, qualify).         *)
(*                                                                         *)
(* A sales team is a sequence of members; a member is identified by its    *)
(* position in the team (the object reference the router hands back).      *)
(* Optional numeric fields are <<>> when unset and <<n>> when set; an      *)
(* optional enum field is the string "undefined" when unset.  An unset     *)
(* industries array is the empty set: the router reads it only through     *)
(* industries?.includes(x) in a boolean position.                          *)
(***************************************************************************)
EXTENDS Integers, Sequences, FiniteSets, TLC

\* ------------------------------------------------------------------ bounds
MaxTeam == 2
MaxLoad == 1
MaxCap  == 1
MaxRuns == 2
MaxResolves == 2
MaxInterrupts == 1

\* ------------------------------------------------------------ enumerations
Undefined == "undefined"

Categories ==
  {"HOT_LEAD", "QUALIFIED", "WARM_LEAD", "FOLLOW_UP",
   "COLD_LEAD", "UNQUALIFIED", "SUPPORT", "PARTNER"}

Priorities == {"URGENT", "HIGH", "MEDIUM", "LOW"}

Industries ==
  {"TECHNOLOGY", "FINANCE", "HEALTHCARE", "RETAIL", "MANUFACTURING",
   "EDUCATION", "GOVERNMENT", "NONPROFIT", "OTHER"}

CompanySizes == {"ENTERPRISE", "MID_MARKET", "SMB", "STARTUP", "UNKNOWN"}

Roles == {"SDR", "AE", "ENTERPRISE_AE", "TEAM_LEAD"}

\* The null a routing call returns when it selects nobody.
Null == 0

\* ------------------------------------------------------ optional numbers
None == << >>
Some(n) == << n >>

\* JavaScript's (x || 0) on an optional number.
OrZero(opt) == IF opt = None THEN 0 ELSE opt[1]

\* JavaScript's !x on an optional number: unset and 0 are both falsy.
Falsy(opt) == opt = None \/ opt[1] = 0

\* --------------------------------------------------------------- the team
SalesTeamMember(r, ind, cap, cur) ==
  [role |-> r, industries |-> ind, maxActiveLeads |-> cap, currentLeadCount |-> cur]

defaultSalesTeam ==
  << SalesTeamMember("ENTERPRISE_AE", {"TECHNOLOGY", "FINANCE"},   Some(15), Some(8)),
     SalesTeamMember("ENTERPRISE_AE", {"HEALTHCARE", "FINANCE"},   Some(15), Some(12)),
     SalesTeamMember("AE",            {"TECHNOLOGY", "RETAIL"},    Some(25), Some(18)),
     SalesTeamMember("SDR",           {"TECHNOLOGY", "EDUCATION"}, Some(40), Some(25)),
     SalesTeamMember("SDR",           {"RETAIL", "MANUFACTURING"}, Some(40), Some(30)) >>

\* ------------------------------------------------------------- the router
\* The whole team, as the positions of its members in iteration order.
AllOf(team) == [i \in 1..Len(team) |-> i]

\* The reduce callback of findLeastBusyRep: the accumulator survives only
\* when its count is strictly smaller.
LessBusy(team, prev, current) ==
  LET prevCount    == OrZero(team[prev].currentLeadCount)
      currentCount == OrZero(team[current].currentLeadCount)
  IN  IF prevCount < currentCount THEN prev ELSE current

RECURSIVE Reduce(_, _, _, _)
Reduce(team, cands, acc, i) ==
  IF i > Len(cands) THEN acc
  ELSE Reduce(team, cands, LessBusy(team, acc, cands[i]), i + 1)

findLeastBusyRep(team, cands) ==
  IF Len(cands) = 0 THEN Null ELSE Reduce(team, cands, cands[1], 2)

\* this.salesTeam.filter(member => member.role === 'ENTERPRISE_AE'), as the
\* positions kept, in order.
enterpriseAEs(team) ==
  SelectSeq(AllOf(team), LAMBDA i : team[i].role = "ENTERPRISE_AE")

\* The predicate of enterpriseAEs.find(...): industry match and capacity.
hasIndustryMatch(ae, q) ==
  q.industry # Undefined /\ q.industry \in ae.industries

hasCapacity(ae) ==
  Falsy(ae.maxActiveLeads) \/ OrZero(ae.currentLeadCount) < ae.maxActiveLeads[1]

\* The enterprise AEs the find predicate accepts, in order (find takes the first).
industryCapacityMatches(team, q) ==
  SelectSeq(enterpriseAEs(team),
            LAMBDA i : hasIndustryMatch(team[i], q) /\ hasCapacity(team[i]))

\* Faulty variant: the fallback calls findLeastBusyRep() without its argument, so the
\* default parameter (the whole team) is searched.
findBestEnterpriseAE_WholeTeamFallback(team, q) ==
  IF Len(enterpriseAEs(team)) = 0 THEN Null
  ELSE IF Len(industryCapacityMatches(team, q)) > 0
       THEN industryCapacityMatches(team, q)[1]
       ELSE findLeastBusyRep(team, AllOf(team))

\* Faulty variant: the industry-and-capacity preference is skipped.
findBestEnterpriseAE_LoadOnly(team, q) ==
  IF Len(enterpriseAEs(team)) = 0 THEN Null
  ELSE findLeastBusyRep(team, enterpriseAEs(team))

findBestEnterpriseAE(team, q) ==
  IF Len(enterpriseAEs(team)) = 0 THEN Null
  ELSE IF Len(industryCapacityMatches(team, q)) > 0
       THEN industryCapacityMatches(team, q)[1]
       ELSE findLeastBusyRep(team, enterpriseAEs(team))

\* this.salesTeam.filter(member => member.industries?.includes(industry)).
industryExperts(team, industry) ==
  SelectSeq(AllOf(team), LAMBDA i : industry \in team[i].industries)

findIndustryExpert(team, industry) ==
  IF Len(industryExperts(team, industry)) = 0 THEN Null
  ELSE findLeastBusyRep(team, industryExperts(team, industry))

\* routeLead, with the branch that returned: the worker and the rule that
\* produced it.
routeLeadTrace(team, q) ==
  IF Len(team) = 0 THEN [rule |-> "EMPTY", worker |-> Null]
  ELSE IF (q.category = "HOT_LEAD" \/ q.priority = "URGENT")
          /\ findBestEnterpriseAE(team, q) # Null
       THEN [rule |-> "HOT_URGENT", worker |-> findBestEnterpriseAE(team, q)]
  ELSE IF q.companySize = "ENTERPRISE"
       THEN [rule |-> "ENTERPRISE", worker |-> findBestEnterpriseAE(team, q)]
  ELSE IF q.industry # Undefined /\ findIndustryExpert(team, q.industry) # Null
       THEN [rule |-> "INDUSTRY", worker |-> findIndustryExpert(team, q.industry)]
  ELSE [rule |-> "DEFAULT", worker |-> findLeastBusyRep(team, AllOf(team))]

routeLead(team, q) == routeLeadTrace(team, q).worker

\* The reason text: `Assigned to ${name} (${role})` followed by one suffix.
NoTeamReason == "No sales team configured. Please assign manually."
HotSuffix == " - Hot lead requires enterprise AE"
EnterpriseSuffix == " - Enterprise account"
IndustrySuffix == " - Industry expertise: "
CapacitySuffix == " - Best available capacity"

\* The suffix chain of getRoutingRecommendation (lines 149-160).
reasonSuffix(team, q, assignedTo) ==
  IF q.category = "HOT_LEAD" THEN HotSuffix
  ELSE IF q.companySize = "ENTERPRISE" THEN EnterpriseSuffix
  ELSE IF q.industry # Undefined /\ q.industry \in team[assignedTo].industries
       THEN IndustrySuffix
  ELSE CapacitySuffix

\* A reason: the fixed no-team text, or the template's parts.
Reason(text, name, role, suffix, industry) ==
  [text |-> text, name |-> name, role |-> role, suffix |-> suffix,
   industry |-> industry]

\* Lines 147-162 of getRoutingRecommendation: they read assignedTo.name and
\* assignedTo.role, which throws a TypeError on null.
describeAssignment(team, q, assignedTo) ==
  IF assignedTo = Null
  THEN [outcome |-> "TypeError", assignedTo |-> Null,
        reason |-> Reason("", Null, Undefined, "", Undefined)]
  ELSE [outcome |-> "returned",
        assignedTo |-> assignedTo,
        reason |->
          Reason("Assigned to ", assignedTo, team[assignedTo].role,
                 reasonSuffix(team, q, assignedTo),
                 IF reasonSuffix(team, q, assignedTo) = IndustrySuffix
                 THEN q.industry ELSE Undefined)]

\* Faulty variant: the null check on routeLead's result is missing.
getRoutingRecommendation_NoNullCheck(team, q) ==
  describeAssignment(team, q, routeLead(team, q))

getRoutingRecommendation(team, q) ==
  IF routeLead(team, q) = Null
  THEN [outcome |-> "returned", assignedTo |-> Null,
        reason |-> Reason(NoTeamReason, Null, Undefined, "", Undefined)]
  ELSE describeAssignment(team, q, routeLead(team, q))

\* ------------------------------------------------- inputs of the router
\* Industries the enumerated teams and classifications draw from.
PoolIndustries == {"TECHNOLOGY", "FINANCE"}

\* Roles the enumerated teams draw from: the router reads a role only through
\* the test role === 'ENTERPRISE_AE'.
PoolRoles == {"AE", "ENTERPRISE_AE"}

\* Capacity ceilings: unset, 0, ..., MaxCap.  Current counts: unset (read as
\* 0 by the router), 1, ..., MaxLoad.
PoolCaps == {None} \cup {Some(n) : n \in 0..MaxCap}
PoolLoads == {None} \cup {Some(n) : n \in 1..MaxLoad}

Members ==
  {SalesTeamMember(r, ind, cap, cur) :
     r \in PoolRoles,
     ind \in {{}, {"TECHNOLOGY"}},
     cap \in PoolCaps,
     cur \in PoolLoads}

Teams == UNION {[1..n -> Members] : n \in 0..MaxTeam}

\* The fields of a qualification the router reads.  It reads the category only
\* through category === 'HOT_LEAD', the priority only through
\* priority === 'URGENT' and the size only through companySize === 'ENTERPRISE'.
RoutedQualifications ==
  [category : {"HOT_LEAD", "QUALIFIED"},
   priority : {"URGENT", "MEDIUM"},
   industry : {Undefined} \cup PoolIndustries,
   companySize : {Undefined, "ENTERPRISE"}]

\* ------------------------------------------------------------------ state
VARIABLES
  configuredTeam, \* the array handed to the LeadRouter constructor
  salesTeam,   \* the router's team (LeadRouter.salesTeam)
  input,       \* the qualification handed to a direct call of the router
  lastCall,    \* the last direct call made on the router and what it returned
  leads,       \* per lead being qualified: position in qualify and its object
  accepted,    \* per team member: the assignments qualify has written to a lead
  env,         \* process.env: which of the Slack settings are set
  run,         \* one workflow run: its position, its step results, its outcome
  gate,        \* the approval side: messages posted, decision taken, emails sent
  request,     \* the request POST /api/outbound is handling
  response,    \* the response it returned, once it has
  starts       \* the workflows start() has started

vars == << configuredTeam, salesTeam, input, lastCall, leads, accepted,
           env, run, gate, request, response, starts >>
routerVars == << input, lastCall >>
qualifyVars == << leads, accepted >>
workflowVars == << env, run, gate >>
routeVars == << request, response, starts >>

NoReason == Reason("", Null, Undefined, "", Undefined)

NoCall ==
  [op |-> "none", outcome |-> "returned", assignedTo |-> Null, reason |-> NoReason]

\* Faulty variant: planning a route also commits it, counting the lead on the worker.
RouteLeadCall_Committing ==
  /\ lastCall.op = "none"
  /\ lastCall' = [op |-> "routeLead", outcome |-> "returned",
                  assignedTo |-> routeLead(salesTeam, input),
                  reason |-> NoReason]
  /\ salesTeam' =
       IF routeLead(salesTeam, input) = Null THEN salesTeam
       ELSE [salesTeam EXCEPT ![routeLead(salesTeam, input)].currentLeadCount =
               Some(OrZero(@) + 1)]
  /\ UNCHANGED << configuredTeam, input, qualifyVars, workflowVars, routeVars >>

\* A direct call of routeLead on the input.
RouteLeadCall ==
  /\ lastCall.op = "none"
  /\ lastCall' = [op |-> "routeLead", outcome |-> "returned",
                  assignedTo |-> routeLead(salesTeam, input),
                  reason |-> NoReason]
  /\ UNCHANGED << configuredTeam, salesTeam, input, qualifyVars, workflowVars, routeVars >>

\* A direct call of getRoutingRecommendation on the input.
RecommendCall ==
  /\ lastCall.op # "getRoutingRecommendation"
  /\ lastCall' = [op |-> "getRoutingRecommendation"] @@
                 getRoutingRecommendation(salesTeam, input)
  /\ UNCHANGED << configuredTeam, salesTeam, input, qualifyVars, workflowVars, routeVars >>

\* ------------------------------------------------------------- qualify
Runs == 1..MaxRuns

\* object.assignedTo: unset, the classifier's own suggestion, or the text
\* `${name} (${email}) - ${reason}` qualify writes from a recommendation.
NoAssignee == [by |-> "nobody", name |-> Null, reason |-> NoReason]
ClassifierAssignee == [by |-> "classifier", name |-> Null, reason |-> NoReason]
RouterAssignee(rec) == [by |-> "router", name |-> rec.assignedTo, reason |-> rec.reason]

\* The objects generateObject may return under qualificationSchema, over the
\* fields the router and the workflow read.
LeadQualifications ==
  [category : {"HOT_LEAD", "QUALIFIED", "COLD_LEAD"},
   priority : {"URGENT", "MEDIUM"},
   industry : {Undefined, "TECHNOLOGY"},
   companySize : {Undefined, "ENTERPRISE"},
   assignedTo : {NoAssignee, ClassifierAssignee}]

NoObject ==
  [category |-> Undefined, priority |-> Undefined, industry |-> Undefined,
   companySize |-> Undefined, assignedTo |-> NoAssignee]

\* A team of two reps whose loads are one lead apart.
pairTeam ==
  << SalesTeamMember("AE",  {"TECHNOLOGY"}, None, None),
     SalesTeamMember("SDR", {},             None, Some(1)) >>

\* The teams the global router is constructed with: the shipped default, the
\* constructor's default (no team), the default without its enterprise AEs,
\* and the team of two.
ConfiguredTeams ==
  {defaultSalesTeam, << >>, SubSeq(defaultSalesTeam, 3, 5), pairTeam}

NoneAccepted(team) == [i \in 1..Len(team) |-> 0]

\* qualify up to its first await: generateObject returns a classification.
QualifyGenerate(r) ==
  /\ leads[r].pc = "generate"
  /\ \E object \in LeadQualifications :
       leads' = [leads EXCEPT ![r] = [pc |-> "route", object |-> object]]
  /\ UNCHANGED << configuredTeam, salesTeam, routerVars, accepted, workflowVars, routeVars >>

\* generateObject rejects: qualify rejects with it, before any routing.
QualifyGenerateFails(r) ==
  /\ leads[r].pc = "generate"
  /\ leads' = [leads EXCEPT ![r].pc = "failed"]
  /\ UNCHANGED << configuredTeam, salesTeam, routerVars, accepted, workflowVars, routeVars >>

\* The object qualify returns, given the recommendation of the router: the
\* assignee is written only when the call returned a worker; a throw lands in
\* the catch, which only warns.
qualifiedObject(object, rec) ==
  IF rec.outcome = "returned" /\ rec.assignedTo # Null
  THEN [object EXCEPT !.assignedTo = RouterAssignee(rec)]
  ELSE object

\* Faulty variant: the recommendation is committed to the router's team.
QualifyRoute_Committing(r) ==
  LET rec == getRoutingRecommendation(salesTeam, leads[r].object)
      written == rec.outcome = "returned" /\ rec.assignedTo # Null
  IN  /\ leads[r].pc = "route"
      /\ leads' = [leads EXCEPT ![r] =
                     [pc |-> "done", object |-> qualifiedObject(leads[r].object, rec)]]
      /\ accepted' = IF written
                     THEN [accepted EXCEPT ![rec.assignedTo] = @ + 1]
                     ELSE accepted
      /\ salesTeam' = IF written
                      THEN [salesTeam EXCEPT ![rec.assignedTo].currentLeadCount =
                              Some(OrZero(@) + 1)]
                      ELSE salesTeam
      /\ UNCHANGED << configuredTeam, routerVars, workflowVars, routeVars >>

\* qualify from the import of the router to its return (lines 106-118).
QualifyRoute(r) ==
  LET rec == getRoutingRecommendation(salesTeam, leads[r].object)
      written == rec.outcome = "returned" /\ rec.assignedTo # Null
  IN  /\ leads[r].pc = "route"
      /\ leads' = [leads EXCEPT ![r] =
                     [pc |-> "done", object |-> qualifiedObject(leads[r].object, rec)]]
      /\ accepted' = IF written
                     THEN [accepted EXCEPT ![rec.assignedTo] = @ + 1]
                     ELSE accepted
      /\ UNCHANGED << configuredTeam, salesTeam, routerVars, workflowVars, routeVars >>

\* ------------------------------------------------------ workflow state
\* process.env as the approval steps read it: each setting set or missing.
Environments == [SLACK_BOT_TOKEN : BOOLEAN, SLACK_SIGNING_SECRET : BOOLEAN]

\* No workflow started: nothing recorded, nothing posted, nothing decided.
NoRun ==
  [kind |-> "none", pc |-> "idle", status |-> "idle",
   research |-> None, enrichment |-> None, qualification |-> None,
   email |-> None, sequence |-> None, review |-> None, result |-> None,
   log |-> << >>, failedAt |-> None, error |-> None, interruptedAt |-> << >>]

NoGate ==
  [posts |-> 0, decision |-> "none", sent |-> 0, resolves |-> 0, ignored |-> 0]

\* No request has reached the route.
NoRequest == [text |-> "none", body |-> None]

NoRoute ==
  /\ request = NoRequest
  /\ response = None
  /\ starts = 0

NoWorkflow ==
  /\ env = [SLACK_BOT_TOKEN |-> TRUE, SLACK_SIGNING_SECRET |-> TRUE]
  /\ run = NoRun
  /\ gate = NoGate

InitRouter ==
  /\ configuredTeam \in Teams
  /\ salesTeam = configuredTeam
  /\ input \in RoutedQualifications
  /\ lastCall = NoCall
  /\ leads = [r \in Runs |-> [pc |-> "generate", object |-> NoObject]]
  /\ accepted = NoneAccepted(configuredTeam)
  /\ NoWorkflow
  /\ NoRoute

NextRouter ==
  \/ RouteLeadCall
  \/ RecommendCall

SpecRouter == InitRouter /\ [][NextRouter]_vars

InitQualify ==
  /\ configuredTeam \in ConfiguredTeams
  /\ salesTeam = configuredTeam
  /\ input = [category |-> "QUALIFIED", priority |-> "MEDIUM",
              industry |-> Undefined, companySize |-> Undefined]
  /\ lastCall = NoCall
  /\ leads = [r \in Runs |-> [pc |-> "generate", object |-> NoObject]]
  /\ accepted = NoneAccepted(configuredTeam)
  /\ NoWorkflow
  /\ NoRoute

NextQualify ==
  \E r \in Runs :
    \/ QualifyGenerate(r)
    \/ QualifyGenerateFails(r)
    \/ QualifyRoute(r)

SpecQualify == InitQualify /\ [][NextQualify]_vars

\* ----------------------------------------------------- inbound workflow
\* leadScore: z.number().min(0).max(100).
ScoreMin == 0
ScoreMax == 100

\* Faulty variant: the schema leaves the score unconstrained.
qualificationSchema_AnyScore(object) ==
  /\ object.category \in Categories
  /\ object.priority \in Priorities
  /\ object.industry \in Industries \cup {Undefined}
  /\ object.companySize \in CompanySizes \cup {Undefined}

\* qualificationSchema, as the test generateObject puts its result to: the
\* enumerations of category, priority, industry and companySize and the
\* range of the score; industry and companySize are optional.
qualificationSchema(object) ==
  /\ object.category \in Categories
  /\ object.priority \in Priorities
  /\ object.leadScore >= ScoreMin
  /\ object.leadScore <= ScoreMax
  /\ object.industry \in Industries \cup {Undefined}
  /\ object.companySize \in CompanySizes \cup {Undefined}

\* The objects generateObject may return under qualificationSchema in a
\* workflow run: every category of the schema.
Classifications ==
  [category : Categories,
   priority : {"URGENT", "MEDIUM"},
   leadScore : {ScoreMin, ScoreMax},
   industry : {Undefined, "TECHNOLOGY"},
   companySize : {Undefined, "ENTERPRISE"},
   assignedTo : {NoAssignee, ClassifierAssignee}]

\* What the language model may answer generateObject with: the objects
\* above, and objects off the schema in their category, priority or score.
ModelAnswers ==
  Classifications \cup
  {[category |-> c, priority |-> p, leadScore |-> n, industry |-> Undefined,
    companySize |-> Undefined, assignedTo |-> NoAssignee] :
     c \in {"HOT_LEAD", "SPAM"},
     p \in {"URGENT", "CRITICAL"},
     n \in {ScoreMin - 1, ScoreMax, ScoreMax + 1}}

\* The texts the research agent may return.
ResearchReports == {"report-1", "report-2"}

\* emailTemplateTypeSchema: the template kinds.
EmailTemplateTypes ==
  {"HOT_LEAD_RESPONSE", "QUALIFIED_RESPONSE", "FOLLOW_UP", "NURTURE",
   "SUPPORT_REDIRECT", "PARTNER_OUTREACH", "COLD_OUTREACH"}

\* getEmailTemplateType: the switch on the category, with its default.
getEmailTemplateType(category) ==
  CASE category = "HOT_LEAD" -> "HOT_LEAD_RESPONSE"
    [] category \in {"QUALIFIED", "WARM_LEAD"} -> "QUALIFIED_RESPONSE"
    [] category = "FOLLOW_UP" -> "FOLLOW_UP"
    [] category = "SUPPORT" -> "SUPPORT_REDIRECT"
    [] category = "PARTNER" -> "PARTNER_OUTREACH"
    [] OTHER -> "NURTURE"

\* Faulty variant: the chain has no branch for COLD_LEAD.
inboundBranch_NoColdBranch(category) ==
  IF category \in {"HOT_LEAD", "QUALIFIED", "WARM_LEAD", "FOLLOW_UP", "PARTNER"}
  THEN "outreach"
  ELSE IF category = "SUPPORT" THEN "support"
  ELSE IF category = "UNQUALIFIED" THEN "unqualified"
  ELSE "none"

\* The branch of workflowInbound a category takes (the if / else-if chain).
inboundBranch(category) ==
  IF category \in {"HOT_LEAD", "QUALIFIED", "WARM_LEAD", "FOLLOW_UP", "PARTNER"}
  THEN "outreach"
  ELSE IF category = "SUPPORT" THEN "support"
  ELSE IF category = "UNQUALIFIED" THEN "unqualified"
  ELSE IF category = "COLD_LEAD" THEN "cold"
  ELSE "none"

\* Faulty variant: the outreach branch asks for approval before writing.
afterQualify_ApprovalFirst(category) ==
  IF inboundBranch(category) = "none" THEN "return"
  ELSE IF inboundBranch(category) = "outreach" THEN "stepHumanFeedback"
  ELSE "stepWriteEmail"

\* What workflowInbound awaits next once a step has returned.
afterQualify(category) ==
  IF inboundBranch(category) = "none" THEN "return" ELSE "stepWriteEmail"

\* Faulty variant: every branch without a follow-up sequence is reviewed.
afterWriteEmail_AlwaysReviewed(category) ==
  IF inboundBranch(category) = "outreach" THEN "stepGenerateFollowUpSequence"
  ELSE "stepHumanFeedback"

\* Faulty variant: the support branch writes a follow-up sequence too.
afterWriteEmail_SupportFollowUp(category) ==
  IF inboundBranch(category) \in {"outreach", "support"}
  THEN "stepGenerateFollowUpSequence"
  ELSE "return"

afterWriteEmail(category) ==
  IF inboundBranch(category) = "outreach" THEN "stepGenerateFollowUpSequence"
  ELSE IF inboundBranch(category) = "support" THEN "stepHumanFeedback"
  ELSE "return"

\* The values workflowInbound hands to a step, besides the form data.
inboundArguments(r, step) ==
  CASE step = "stepResearch" -> [data |-> "form"]
    [] step = "stepEnrichment" -> [research |-> r.research]
    [] step = "stepQualify" ->
         [research |-> r.research, enrichment |-> r.enrichment]
    [] step = "stepWriteEmail" ->
         [research |-> r.research, qualification |-> r.qualification,
          enrichment |-> r.enrichment]
    [] step = "stepGenerateFollowUpSequence" ->
         [qualification |-> r.qualification, enrichment |-> r.enrichment,
          email |-> r.email]
    [] step = "stepHumanFeedback" ->
         [research |-> r.research, email |-> r.email,
          qualification |-> r.qualification, enrichment |-> r.enrichment]

InboundSteps ==
  {"stepResearch", "stepEnrichment", "stepQualify", "stepWriteEmail",
   "stepGenerateFollowUpSequence", "stepHumanFeedback"}

inboundCall(r, step) == [step |-> step, args |-> inboundArguments(r, step)]

\* The workflow is at the await of this step.
InboundAt(step) ==
  /\ run.kind = "inbound"
  /\ run.status = "running"
  /\ run.pc = step

\* Faulty variant: the workflow goes from research straight to qualify.
StepResearch_SkipsEnrichment ==
  /\ InboundAt("stepResearch")
  /\ \E research \in ResearchReports :
       run' = [run EXCEPT !.research = Some(research),
                          !.log = Append(@, inboundCall(run, "stepResearch")),
                          !.pc = "stepQualify"]
  /\ UNCHANGED << configuredTeam, salesTeam, routerVars, qualifyVars, env, gate, routeVars >>

\* stepResearch: the research agent's text.
StepResearch ==
  /\ InboundAt("stepResearch")
  /\ \E research \in ResearchReports :
       run' = [run EXCEPT !.research = Some(research),
                          !.log = Append(@, inboundCall(run, "stepResearch")),
                          !.pc = "stepEnrichment"]
  /\ UNCHANGED << configuredTeam, salesTeam, routerVars, qualifyVars, env, gate, routeVars >>

\* stepEnrichment: enrichLead over the form data and the research.
StepEnrichment ==
  /\ InboundAt("stepEnrichment")
  /\ run' = [run EXCEPT !.enrichment = Some([research |-> run.research]),
                        !.log = Append(@, inboundCall(run, "stepEnrichment")),
                        !.pc = "stepQualify"]
  /\ UNCHANGED << configuredTeam, salesTeam, routerVars, qualifyVars, env, gate, routeVars >>

\* stepQualify: qualify, from generateObject to the routing it integrates.
StepQualify ==
  /\ InboundAt("stepQualify")
  /\ \E object \in ModelAnswers :
       IF qualificationSchema(object)
       THEN LET rec == getRoutingRecommendation(salesTeam, object)
                written == rec.outcome = "returned" /\ rec.assignedTo # Null
            IN  /\ run' = [run EXCEPT
                             !.qualification = Some(qualifiedObject(object, rec)),
                             !.log = Append(@, inboundCall(run, "stepQualify")),
                             !.pc = afterQualify(object.category)]
                /\ accepted' = IF written
                               THEN [accepted EXCEPT ![rec.assignedTo] = @ + 1]
                               ELSE accepted
       ELSE /\ run' = [run EXCEPT
                         !.failedAt = Some("stepQualify"),
                         !.error = Some([name |-> "NoObjectGeneratedError",
                                         value |-> object]),
                         !.log = Append(@, inboundCall(run, "stepQualify")),
                         !.status = "failed"]
            /\ accepted' = accepted
  /\ UNCHANGED << configuredTeam, salesTeam, routerVars, leads, env, gate, routeVars >>

\* stepWriteEmail: the email written from the template of the category.
StepWriteEmail ==
  /\ InboundAt("stepWriteEmail")
  /\ run' = [run EXCEPT
               !.email = Some([templateType |->
                                 getEmailTemplateType(run.qualification[1].category),
                               research |-> run.research]),
               !.log = Append(@, inboundCall(run, "stepWriteEmail")),
               !.pc = afterWriteEmail(run.qualification[1].category)]
  /\ UNCHANGED << configuredTeam, salesTeam, routerVars, qualifyVars, env, gate, routeVars >>

\* stepGenerateFollowUpSequence: the sequence written after [initialEmail].
StepGenerateFollowUpSequence ==
  /\ InboundAt("stepGenerateFollowUpSequence")
  /\ run' = [run EXCEPT
               !.sequence = Some([previousEmails |-> << run.email[1] >>]),
               !.log = Append(@, inboundCall(run, "stepGenerateFollowUpSequence")),
               !.pc = "stepHumanFeedback"]
  /\ UNCHANGED << configuredTeam, salesTeam, routerVars, qualifyVars, env, gate, routeVars >>

\* The approval steps' test of the environment.
slackConfigured(e) == ~(~e.SLACK_BOT_TOKEN \/ ~e.SLACK_SIGNING_SECRET)

\* Faulty variant: without Slack the step sends the email itself.
StepHumanFeedback_AutoApprove ==
  /\ InboundAt("stepHumanFeedback")
  /\ run' = [run EXCEPT !.review = Some(IF slackConfigured(env)
                                         THEN "slackMessage" ELSE "undefined"),
                        !.log = Append(@, inboundCall(run, "stepHumanFeedback")),
                        !.pc = "return"]
  /\ gate' = IF slackConfigured(env)
             THEN [gate EXCEPT !.posts = @ + 1]
             ELSE [gate EXCEPT !.decision = "approved", !.sent = @ + 1]
  /\ UNCHANGED << configuredTeam, salesTeam, routerVars, qualifyVars, env, routeVars >>

\* stepHumanFeedback: returns at once without Slack, else posts the message
\* with the approve and reject buttons.
StepHumanFeedback ==
  /\ InboundAt("stepHumanFeedback")
  /\ run' = [run EXCEPT !.review = Some(IF slackConfigured(env)
                                         THEN "slackMessage" ELSE "undefined"),
                        !.log = Append(@, inboundCall(run, "stepHumanFeedback")),
                        !.pc = "return"]
  /\ gate' = IF slackConfigured(env)
             THEN [gate EXCEPT !.posts = @ + 1]
             ELSE gate
  /\ UNCHANGED << configuredTeam, salesTeam, routerVars, qualifyVars, env, routeVars >>

\* The summary workflowInbound returns, over the fields modelled.
inboundSummary(q) ==
  [category |-> q.category, priority |-> q.priority,
   leadScore |-> q.leadScore, assignedTo |-> q.assignedTo]

\* workflowInbound returns its summary: the run is complete.
InboundReturn ==
  /\ InboundAt("return")
  /\ run' = [run EXCEPT !.result = Some(inboundSummary(run.qualification[1])),
                        !.status = "completed",
                        !.pc = "done"]
  /\ UNCHANGED << configuredTeam, salesTeam, routerVars, qualifyVars, env, gate, routeVars >>

\* ---------------------------------------------------- outbound workflow
\* What stepQualifyProspect may return, over the field the workflow reads.
ProspectQualifications ==
  [shouldReachOut : BOOLEAN, reason : {"strong fit", "no budget"}]

\* Faulty variant: the outreach is written whatever the qualification says.
afterQualifyProspect_Always(q) == "stepGenerateOutboundEmail"

afterQualifyProspect(q) ==
  IF q.shouldReachOut THEN "stepGenerateOutboundEmail" ELSE "return"

\* The values workflowOutbound hands to a step, besides the prospect.
outboundArguments(r, step) ==
  CASE step = "stepResearchProspect" -> [prospect |-> "prospect"]
    [] step = "stepQualifyProspect" -> [research |-> r.research]
    [] step = "stepGenerateOutboundEmail" ->
         [research |-> r.research, qualification |-> r.qualification]
    [] step = "stepGenerateMultiTouchSequence" ->
         [research |-> r.research, qualification |-> r.qualification,
          initialEmail |-> r.email]
    [] step = "stepReviewOutbound" ->
         [research |-> r.research, qualification |-> r.qualification,
          sequence |-> r.sequence]

OutboundSteps ==
  {"stepResearchProspect", "stepQualifyProspect", "stepGenerateOutboundEmail",
   "stepGenerateMultiTouchSequence", "stepReviewOutbound"}

outboundCall(r, step) == [step |-> step, args |-> outboundArguments(r, step)]

OutboundAt(step) ==
  /\ run.kind = "outbound"
  /\ run.status = "running"
  /\ run.pc = step

StepResearchProspect ==
  /\ OutboundAt("stepResearchProspect")
  /\ \E research \in ResearchReports :
       run' = [run EXCEPT !.research = Some(research),
                          !.log = Append(@, outboundCall(run, "stepResearchProspect")),
                          !.pc = "stepQualifyProspect"]
  /\ UNCHANGED << configuredTeam, salesTeam, routerVars, qualifyVars, env, gate, routeVars >>

StepQualifyProspect ==
  /\ OutboundAt("stepQualifyProspect")
  /\ \E q \in ProspectQualifications :
       run' = [run EXCEPT !.qualification = Some(q),
                          !.log = Append(@, outboundCall(run, "stepQualifyProspect")),
                          !.pc = afterQualifyProspect(q)]
  /\ UNCHANGED << configuredTeam, salesTeam, routerVars, qualifyVars, env, gate, routeVars >>

StepGenerateOutboundEmail ==
  /\ OutboundAt("stepGenerateOutboundEmail")
  /\ run' = [run EXCEPT
               !.email = Some([templateType |-> "COLD_OUTBOUND",
                               research |-> run.research]),
               !.log = Append(@, outboundCall(run, "stepGenerateOutboundEmail")),
               !.pc = "stepGenerateMultiTouchSequence"]
  /\ UNCHANGED << configuredTeam, salesTeam, routerVars, qualifyVars, env, gate, routeVars >>

StepGenerateMultiTouchSequence ==
  /\ OutboundAt("stepGenerateMultiTouchSequence")
  /\ run' = [run EXCEPT
               !.sequence = Some([previousEmails |-> << run.email[1] >>]),
               !.log = Append(@, outboundCall(run, "stepGenerateMultiTouchSequence")),
               !.pc = "stepReviewOutbound"]
  /\ UNCHANGED << configuredTeam, salesTeam, routerVars, qualifyVars, env, gate, routeVars >>

\* stepReviewOutbound: the same test of the environment, then the post.
StepReviewOutbound ==
  /\ OutboundAt("stepReviewOutbound")
  /\ run' = [run EXCEPT !.review = Some(IF slackConfigured(env)
                                         THEN "slackMessage" ELSE "undefined"),
                        !.log = Append(@, outboundCall(run, "stepReviewOutbound")),
                        !.pc = "return"]
  /\ gate' = IF slackConfigured(env)
             THEN [gate EXCEPT !.posts = @ + 1]
             ELSE gate
  /\ UNCHANGED << configuredTeam, salesTeam, routerVars, qualifyVars, env, routeVars >>

\* What workflowOutbound returns on either side of shouldReachOut.
outboundSummary(q) ==
  IF q.shouldReachOut
  THEN [qualified |-> TRUE, reason |-> Undefined]
  ELSE [qualified |-> FALSE, reason |-> q.reason]

OutboundReturn ==
  /\ OutboundAt("return")
  /\ run' = [run EXCEPT !.result = Some(outboundSummary(run.qualification[1])),
                        !.status = "completed",
                        !.pc = "done"]
  /\ UNCHANGED << configuredTeam, salesTeam, routerVars, qualifyVars, env, gate, routeVars >>

\* --------------------------------------------------------- step failure
workflowCall(r, step) ==
  IF r.kind = "inbound" THEN inboundCall(r, step) ELSE outboundCall(r, step)

\* The step both workflows end their reviewed branch with.
approvalStep(kind) ==
  IF kind = "inbound" THEN "stepHumanFeedback" ELSE "stepReviewOutbound"

\* Faulty variant: the workflow catches the throw and goes on to the approval.
StepFails_Swallowed ==
  /\ run.status = "running"
  /\ run.pc \in InboundSteps \cup OutboundSteps
  /\ run.pc # approvalStep(run.kind)
  /\ run' = [run EXCEPT !.failedAt = Some(run.pc),
                        !.log = Append(@, workflowCall(run, run.pc)),
                        !.pc = approvalStep(run.kind)]
  /\ UNCHANGED << configuredTeam, salesTeam, routerVars, qualifyVars, env, gate, routeVars >>

\* The awaited step throws: neither workflow has a try around its awaits, so
\* the workflow's promise rejects with it and nothing after the await runs.
StepFails ==
  /\ run.status = "running"
  /\ run.pc \in InboundSteps \cup OutboundSteps
  /\ run' = [run EXCEPT !.failedAt = Some(run.pc),
                        !.error = Some([name |-> "Error"]),
                        !.log = Append(@, workflowCall(run, run.pc)),
                        !.status = "failed"]
  /\ UNCHANGED << configuredTeam, salesTeam, routerVars, qualifyVars, env, gate, routeVars >>

\* -------------------------------------------------------- approval gate
\* The handler of the approve and reject buttons lives in lib/slack.ts, which
\* is not among the files modelled; resolve follows the approval gate's contract:
\* it moves a run that awaits approval to the decision, sending the email on
\* approval, and is a no-op on a run that is already terminal.
Decisions == {"approved", "rejected"}

awaitingApproval(g, r) ==
  g.posts > 0 /\ g.decision = "none" /\ r.status # "failed"

terminal(g, r) == g.decision \in Decisions \/ r.status = "failed"

\* Faulty variant: every resolve is applied, whatever the run's state.
resolve_Overwriting(g, r, decision) ==
  [g EXCEPT !.decision = decision,
            !.sent = IF decision = "approved" THEN @ + 1 ELSE @,
            !.resolves = @ + 1]

\* A resolve on a terminal run changes nothing and is logged as ignored; one
\* for a run that has not asked for approval yet finds nothing to resolve.
resolve(g, r, decision) ==
  IF awaitingApproval(g, r)
  THEN [g EXCEPT !.decision = decision,
                 !.sent = IF decision = "approved" THEN @ + 1 ELSE @,
                 !.resolves = @ + 1]
  ELSE IF terminal(g, r)
  THEN [g EXCEPT !.resolves = @ + 1, !.ignored = @ + 1]
  ELSE [g EXCEPT !.resolves = @ + 1]

\* An out-of-band decision arrives for the run.
Resolve ==
  /\ run.kind # "none"
  /\ gate.resolves < MaxResolves
  /\ \E decision \in Decisions : gate' = resolve(gate, run, decision)
  /\ UNCHANGED << configuredTeam, salesTeam, routerVars, qualifyVars, env, run, routeVars >>

\* ------------------------------------------------ workflow specification
startedRun(kind) ==
  [NoRun EXCEPT !.kind = kind,
                !.status = "running",
                !.pc = IF kind = "inbound" THEN "stepResearch"
                       ELSE "stepResearchProspect"]

\* One run of either workflow has been started, against the global router.
InitWorkflow ==
  /\ configuredTeam \in ConfiguredTeams
  /\ salesTeam = configuredTeam
  /\ input = [category |-> "QUALIFIED", priority |-> "MEDIUM",
              industry |-> Undefined, companySize |-> Undefined]
  /\ lastCall = NoCall
  /\ leads = [r \in Runs |-> [pc |-> "generate", object |-> NoObject]]
  /\ accepted = NoneAccepted(configuredTeam)
  /\ env \in Environments
  /\ run \in {startedRun(kind) : kind \in {"inbound", "outbound"}}
  /\ gate = NoGate
  /\ NoRoute

NextWorkflow ==
  \/ StepResearch
  \/ StepEnrichment
  \/ StepQualify
  \/ StepWriteEmail
  \/ StepGenerateFollowUpSequence
  \/ StepHumanFeedback
  \/ InboundReturn
  \/ StepResearchProspect
  \/ StepQualifyProspect
  \/ StepGenerateOutboundEmail
  \/ StepGenerateMultiTouchSequence
  \/ StepReviewOutbound
  \/ OutboundReturn
  \/ StepFails
  \/ Resolve

SpecWorkflow == InitWorkflow /\ [][NextWorkflow]_vars

\* ------------------------------------------------------ durable execution
\* The runtime behind 'use workflow' and 'use step' is the Workflow DevKit,
\* not among the files modelled; interruption and resumption follow the
\* contract of the stage executor: a step's result is recorded when the step
\* returns, and a resumed run replays the workflow function, taking recorded
\* results instead of calling their steps again.

\* The await a replay of workflowInbound stops at: the first step on the
\* run's path without a recorded result.
firstUnrecordedInbound(r) ==
  IF r.research = None THEN "stepResearch"
  ELSE IF r.enrichment = None THEN "stepEnrichment"
  ELSE IF r.qualification = None THEN "stepQualify"
  ELSE LET category == r.qualification[1].category
       IN  IF afterQualify(category) = "return" THEN "return"
           ELSE IF r.email = None THEN "stepWriteEmail"
           ELSE IF afterWriteEmail(category) = "return" THEN "return"
           ELSE IF afterWriteEmail(category) = "stepGenerateFollowUpSequence"
                   /\ r.sequence = None
                THEN "stepGenerateFollowUpSequence"
           ELSE IF r.review = None THEN "stepHumanFeedback"
           ELSE "return"

firstUnrecordedOutbound(r) ==
  IF r.research = None THEN "stepResearchProspect"
  ELSE IF r.qualification = None THEN "stepQualifyProspect"
  ELSE IF afterQualifyProspect(r.qualification[1]) = "return" THEN "return"
  ELSE IF r.email = None THEN "stepGenerateOutboundEmail"
  ELSE IF r.sequence = None THEN "stepGenerateMultiTouchSequence"
  ELSE IF r.review = None THEN "stepReviewOutbound"
  ELSE "return"

\* Faulty variant: the resumed run calls every step again from the first.
resumed_FromStart(r) ==
  [r EXCEPT !.status = "running",
            !.pc = IF r.kind = "inbound" THEN "stepResearch"
                   ELSE "stepResearchProspect"]

resumed(r) ==
  [r EXCEPT !.status = "running",
            !.pc = IF r.kind = "inbound" THEN firstUnrecordedInbound(r)
                   ELSE firstUnrecordedOutbound(r)]

\* The process dies while the step the workflow awaits is running: the step
\* was called but its result is not recorded; an approval step may already
\* have posted its message.
Interrupt ==
  /\ run.status = "running"
  /\ run.pc \in InboundSteps \cup OutboundSteps
  /\ Len(run.interruptedAt) < MaxInterrupts
  /\ \E posted \in BOOLEAN :
       /\ posted => (run.pc = approvalStep(run.kind) /\ slackConfigured(env))
       /\ gate' = IF posted THEN [gate EXCEPT !.posts = @ + 1] ELSE gate
  /\ run' = [run EXCEPT !.status = "interrupted",
                        !.pc = "lost",
                        !.log = Append(@, workflowCall(run, run.pc)),
                        !.interruptedAt = Append(@, run.pc)]
  /\ UNCHANGED << configuredTeam, salesTeam, routerVars, qualifyVars, env, routeVars >>

\* The run is resumed.
Resume ==
  /\ run.status = "interrupted"
  /\ run' = resumed(run)
  /\ UNCHANGED << configuredTeam, salesTeam, routerVars, qualifyVars, env, gate, routeVars >>

NextResume ==
  \/ StepResearch
  \/ StepEnrichment
  \/ StepQualify
  \/ StepWriteEmail
  \/ StepGenerateFollowUpSequence
  \/ StepHumanFeedback
  \/ InboundReturn
  \/ StepResearchProspect
  \/ StepQualifyProspect
  \/ StepGenerateOutboundEmail
  \/ StepGenerateMultiTouchSequence
  \/ StepReviewOutbound
  \/ OutboundReturn
  \/ StepFails
  \/ Interrupt
  \/ Resume

SpecResume == InitWorkflow /\ [][NextResume]_vars

\* ---------------------------------------------------- POST /api/outbound
\* JSON values of the body's fields, with their type.
missing == [type |-> "undefined", value |-> ""]
string(v) == [type |-> "string", value |-> v]
number == [type |-> "number", value |-> "42"]

\* The enum of campaignType.
CampaignTypes ==
  {"cold_outreach", "warm_intro", "event_follow_up", "content_engagement"}

\* The strings z.string().email() accepts, among those drawn.
EmailAddresses == {"ada@example.com"}

\* The bodies a request may carry, over the fields the schema constrains.
Bodies ==
  [name : {missing, string("Ada"), number},
   email : {missing, string("not-an-email"), string("ada@example.com")},
   company : {missing, string("Acme")},
   title : {missing, string("CTO"), number},
   campaignType : {missing, string("warm_intro"), string("newsletter")}]

\* A request whose text is not JSON, or one carrying a body.
Requests ==
  {[text |-> "malformed", body |-> None]}
    \cup {[text |-> "json", body |-> Some(b)] : b \in Bodies}

\* z.<type>().optional(): an absent field passes, a present one must be
\* accepted by the inner type.
optional(field, innerAccepts) == field = missing \/ innerAccepts
isString(field) == field.type = "string"
isEmail(field) == isString(field) /\ field.value \in EmailAddresses
isCampaignType(field) == isString(field) /\ field.value \in CampaignTypes

\* outboundProspectSchema.safeParse(body).success
outboundProspectSchema(body) ==
  /\ isString(body.name)
  /\ isEmail(body.email)
  /\ isString(body.company)
  /\ optional(body.title, isString(body.title))
  /\ optional(body.campaignType, isCampaignType(body.campaignType))

\* parsedBody.data: the body with the default of campaignType filled in.
parsedData(body) ==
  [body EXCEPT !.campaignType =
     IF @ = missing THEN string("cold_outreach") ELSE @]

Answer(status, payload) == Some([status |-> status, body |-> payload])

\* Faulty variant: the workflow is started before the body is validated.
POST_StartsUnvalidated ==
  /\ request.text # "none"
  /\ response = None
  /\ \E startThrows \in BOOLEAN :
       IF request.text = "malformed" \/ startThrows
       THEN /\ response' = Answer(500, "Failed to start outbound workflow")
            /\ UNCHANGED << run, starts >>
       ELSE /\ run' = startedRun("outbound")
            /\ starts' = starts + 1
            /\ response' =
                 IF outboundProspectSchema(request.body[1])
                 THEN Answer(200, [name |-> request.body[1].name,
                                   company |-> request.body[1].company])
                 ELSE Answer(400, "Invalid request body")
  /\ UNCHANGED << configuredTeam, salesTeam, routerVars, qualifyVars, env, gate,
                  request >>

\* POST: request.json(), safeParse, start, and the catch around them all.
POST ==
  /\ request.text # "none"
  /\ response = None
  /\ \E startThrows \in BOOLEAN :
       IF request.text = "malformed"
       THEN /\ response' = Answer(500, "Failed to start outbound workflow")
            /\ UNCHANGED << run, starts >>
       ELSE IF ~outboundProspectSchema(request.body[1])
       THEN /\ response' = Answer(400, "Invalid request body")
            /\ UNCHANGED << run, starts >>
       ELSE IF startThrows
       THEN /\ response' = Answer(500, "Failed to start outbound workflow")
            /\ UNCHANGED << run, starts >>
       ELSE /\ run' = startedRun("outbound")
            /\ starts' = starts + 1
            /\ response' =
                 Answer(200, [name |-> parsedData(request.body[1]).name,
                              company |-> parsedData(request.body[1]).company])
  /\ UNCHANGED << configuredTeam, salesTeam, routerVars, qualifyVars, env, gate,
                  request >>

\* A request has arrived at the route; no workflow runs yet.
InitRoute ==
  /\ configuredTeam = defaultSalesTeam
  /\ salesTeam = configuredTeam
  /\ input = [category |-> "QUALIFIED", priority |-> "MEDIUM",
              industry |-> Undefined, companySize |-> Undefined]
  /\ lastCall = NoCall
  /\ leads = [r \in Runs |-> [pc |-> "generate", object |-> NoObject]]
  /\ accepted = NoneAccepted(configuredTeam)
  /\ env \in Environments
  /\ run = NoRun
  /\ gate = NoGate
  /\ request \in Requests
  /\ response = None
  /\ starts = 0

NextRoute ==
  \/ POST
  \/ StepResearchProspect
  \/ StepQualifyProspect
  \/ StepGenerateOutboundEmail
  \/ StepGenerateMultiTouchSequence
  \/ StepReviewOutbound
  \/ OutboundReturn
  \/ StepFails

SpecRoute == InitRoute /\ [][NextRoute]_vars

\* ------------------------------------------------- claims on the router
Called == lastCall.op # "none"
HotOrUrgent(q) == q.category = "HOT_LEAD" \/ q.priority = "URGENT"
HasEnterpriseAE(team) == \E i \in 1..Len(team) : team[i].role = "ENTERPRISE_AE"
Load(team, i) == OrZero(team[i].currentLeadCount)

\* Strictly below the capacity ceiling; an unset ceiling is unbounded.
BelowCapacity(m) ==
  m.maxActiveLeads = None
  \/ OrZero(m.currentLeadCount) < m.maxActiveLeads[1]

\* The candidates that are equally eligible at the tier of routeLead that fired.
Candidates(team, q) ==
  LET rule == routeLeadTrace(team, q).rule
  IN  IF rule \in {"HOT_URGENT", "ENTERPRISE"}
      THEN IF Len(industryCapacityMatches(team, q)) > 0
           THEN industryCapacityMatches(team, q)
           ELSE enterpriseAEs(team)
      ELSE IF rule = "INDUSTRY" THEN industryExperts(team, q.industry)
      ELSE AllOf(team)

\* Whether the tier that fired selected with findLeastBusyRep.
LeastBusyTier(team, q) ==
  LET rule == routeLeadTrace(team, q).rule
  IN  \/ rule \in {"INDUSTRY", "DEFAULT"}
      \/ rule \in {"HOT_URGENT", "ENTERPRISE"}
         /\ Len(industryCapacityMatches(team, q)) = 0

\* C1: a HOT_LEAD or URGENT classification routed over a team that has an
\* ENTERPRISE_AE is always given an ENTERPRISE_AE.
C1_HotUrgentGetsEnterpriseAE ==
  (Called /\ HotOrUrgent(input) /\ HasEnterpriseAE(salesTeam))
    => /\ lastCall.assignedTo # Null
       /\ salesTeam[lastCall.assignedTo].role = "ENTERPRISE_AE"

\* C1 witness: routeLead chose an ENTERPRISE_AE although a worker of another
\* role carries a strictly lower load.
C1_Witness ==
  /\ lastCall.op = "routeLead"
  /\ HotOrUrgent(input)
  /\ lastCall.assignedTo # Null
  /\ salesTeam[lastCall.assignedTo].role = "ENTERPRISE_AE"
  /\ \E j \in 1..Len(salesTeam) :
        /\ salesTeam[j].role # "ENTERPRISE_AE"
        /\ Load(salesTeam, j) < Load(salesTeam, lastCall.assignedTo)

\* C2: the worker routeLead returns has the minimum current load among the
\* candidates equally eligible at the tier that fired.
C2_MinimumLoadAtTier ==
  (lastCall.op = "routeLead" /\ lastCall.assignedTo # Null)
    => \A k \in 1..Len(Candidates(salesTeam, input)) :
         Load(salesTeam, lastCall.assignedTo)
           <= Load(salesTeam, Candidates(salesTeam, input)[k])

\* C3: among candidates sharing the minimum load, findLeastBusyRep returns the
\* one that comes first in team order.
C3_TiesFirstInOrder ==
  (lastCall.op = "routeLead" /\ lastCall.assignedTo # Null
     /\ LeastBusyTier(salesTeam, input))
    => \A k \in 1..Len(Candidates(salesTeam, input)) :
         Load(salesTeam, Candidates(salesTeam, input)[k])
             = Load(salesTeam, lastCall.assignedTo)
           => lastCall.assignedTo <= Candidates(salesTeam, input)[k]

\* C4: on an empty team routeLead returns null, getRoutingRecommendation
\* returns a null assignee with the no-team reason, and neither throws.
C4_EmptyTeamIsNoMatch ==
  (Called /\ Len(salesTeam) = 0)
    => /\ lastCall.outcome = "returned"
       /\ lastCall.assignedTo = Null
       /\ lastCall.op = "getRoutingRecommendation"
            => lastCall.reason = Reason(NoTeamReason, Null, Undefined, "", Undefined)

\* C4 witness: a recommendation was asked of an empty team for a hot lead.
C4_Witness ==
  /\ lastCall.op = "getRoutingRecommendation"
  /\ Len(salesTeam) = 0
  /\ input.category = "HOT_LEAD"
  /\ lastCall.reason.text = NoTeamReason

\* C5: with a non-empty team routing always produces an assignment.
C5_NonEmptyTeamAlwaysAssigns ==
  (Called /\ Len(salesTeam) > 0) => lastCall.assignedTo # Null

\* C6: for a HOT_LEAD or URGENT classification with an industry, when some
\* ENTERPRISE_AE lists the industry and is below capacity, the worker returned
\* is an ENTERPRISE_AE that lists the industry.
C6_SpecialistPreferred ==
  (/\ Called
   /\ HotOrUrgent(input)
   /\ input.industry # Undefined
   /\ \E i \in 1..Len(salesTeam) :
        /\ salesTeam[i].role = "ENTERPRISE_AE"
        /\ input.industry \in salesTeam[i].industries
        /\ BelowCapacity(salesTeam[i]))
    => /\ lastCall.assignedTo # Null
       /\ salesTeam[lastCall.assignedTo].role = "ENTERPRISE_AE"
       /\ input.industry \in salesTeam[lastCall.assignedTo].industries

\* C6 witness: the specialist was returned although another ENTERPRISE_AE
\* without the specialty carries a strictly lower load.
C6_Witness ==
  /\ lastCall.op = "routeLead"
  /\ HotOrUrgent(input)
  /\ input.industry # Undefined
  /\ lastCall.assignedTo # Null
  /\ input.industry \in salesTeam[lastCall.assignedTo].industries
  /\ BelowCapacity(salesTeam[lastCall.assignedTo])
  /\ \E j \in 1..Len(salesTeam) :
        /\ salesTeam[j].role = "ENTERPRISE_AE"
        /\ input.industry \notin salesTeam[j].industries
        /\ Load(salesTeam, j) < Load(salesTeam, lastCall.assignedTo)

\* C7: routing calls leave the team as it was constructed: every member's
\* fields and the order of the members.
C7_RoutingLeavesTeamUnchanged == salesTeam = configuredTeam

\* C7 witness: both calls have been made and a worker was assigned.
C7_Witness ==
  /\ lastCall.op = "getRoutingRecommendation"
  /\ lastCall.assignedTo # Null
  /\ Len(salesTeam) = MaxTeam

\* The rule a reason suffix names.
RuleNamedBy(suffix) ==
  IF suffix = HotSuffix THEN "HOT_URGENT"
  ELSE IF suffix = EnterpriseSuffix THEN "ENTERPRISE"
  ELSE IF suffix = IndustrySuffix THEN "INDUSTRY"
  ELSE "DEFAULT"

\* C9: the reason of a recommendation names the rule of routeLead that
\* selected the worker.
C9_ReasonNamesFiredRule ==
  (lastCall.op = "getRoutingRecommendation" /\ lastCall.assignedTo # Null)
    => RuleNamedBy(lastCall.reason.suffix) = routeLeadTrace(salesTeam, input).rule

\* ------------------------------------------------- claims on qualify
\* C8: every assignment qualify accepts raises the assigned worker's current
\* load by one: a worker's load is its configured load plus the number of
\* leads assigned to it, in every interleaving of the leads.
C8_LoadCountsAssignments ==
  \A i \in 1..Len(salesTeam) :
    Load(salesTeam, i) = Load(configuredTeam, i) + accepted[i]

\* C10: a lead whose routing yielded no worker leaves qualify carrying the
\* router's manual-assignment reason as its assignee.
C10_NoMatchIsSurfaced ==
  \A r \in Runs :
    (leads[r].pc = "done" /\ routeLead(salesTeam, leads[r].object) = Null)
      => /\ leads[r].object.assignedTo.by = "router"
         /\ leads[r].object.assignedTo.reason.text = NoTeamReason

\* ----------------------------------------------- claims on the workflows
Invoked(step) == \E i \in 1..Len(run.log) : run.log[i].step = step
Invocations(step) == Cardinality({i \in 1..Len(run.log) : run.log[i].step = step})
Classified == run.kind = "inbound" /\ run.qualification # None
Category == run.qualification[1].category

\* C11: an inbound run classified UNQUALIFIED or COLD_LEAD never invokes
\* stepHumanFeedback and never awaits approval: no message is posted for it.
C11_LowCategoriesSkipApproval ==
  (Classified /\ Category \in {"UNQUALIFIED", "COLD_LEAD"}) =>
    /\ ~Invoked("stepHumanFeedback")
    /\ run.pc # "stepHumanFeedback"
    /\ gate.posts = 0
    /\ ~awaitingApproval(gate, run)

\* An unqualified lead's run has written its email and returned.
C11_Witness ==
  /\ Classified
  /\ Category = "UNQUALIFIED"
  /\ Invoked("stepWriteEmail")
  /\ run.status = "completed"
  /\ slackConfigured(env)

\* C12: an inbound run classified COLD_LEAD against a non-empty team ends
\* with no assignee written by the router, on the classification or the result.
C12_ColdLeadSkipsRouting ==
  (Classified /\ Category = "COLD_LEAD" /\ Len(salesTeam) > 0) =>
    /\ run.qualification[1].assignedTo.by # "router"
    /\ (run.status = "completed" => run.result[1].assignedTo.by # "router")

Position(step) == CHOOSE i \in 1..Len(run.log) : run.log[i].step = step
Outreach == Classified /\ inboundBranch(Category) = "outreach"

\* C13: in a run classified HOT_LEAD, QUALIFIED, WARM_LEAD, FOLLOW_UP or
\* PARTNER the approval is requested only after the email and the follow-up
\* sequence are both written, and a run that returns has written each once and
\* requested approval exactly once.
C13_OutreachWritesBothThenAsksOnce ==
  Outreach =>
    /\ Invocations("stepHumanFeedback") <= 1
    /\ gate.posts <= 1
    /\ (Invoked("stepHumanFeedback") \/ run.pc = "stepHumanFeedback") =>
         /\ run.email # None
         /\ run.sequence # None
         /\ Invocations("stepWriteEmail") = 1
         /\ Invocations("stepGenerateFollowUpSequence") = 1
         /\ Position("stepWriteEmail") < Position("stepGenerateFollowUpSequence")
    /\ Invoked("stepHumanFeedback") =>
         Position("stepGenerateFollowUpSequence") < Position("stepHumanFeedback")
    /\ run.status = "completed" =>
         /\ Invocations("stepHumanFeedback") = 1
         /\ (slackConfigured(env) => gate.posts = 1)

\* A warm lead's run has written both, posted one message and returned.
C13_Witness ==
  /\ Classified
  /\ Category = "WARM_LEAD"
  /\ run.status = "completed"
  /\ run.sequence # None
  /\ gate.posts = 1

\* C14: in a run classified SUPPORT the follow-up sequence is never written;
\* a run that returns has written the one redirect email and requested
\* approval once, after the email.
C14_SupportOneEmailNoFollowUp ==
  (Classified /\ Category = "SUPPORT") =>
    /\ ~Invoked("stepGenerateFollowUpSequence")
    /\ run.pc # "stepGenerateFollowUpSequence"
    /\ run.sequence = None
    /\ Invoked("stepHumanFeedback") =>
         /\ run.email # None
         /\ Position("stepWriteEmail") < Position("stepHumanFeedback")
    /\ run.status = "completed" =>
         /\ Invocations("stepWriteEmail") = 1
         /\ run.email[1].templateType = "SUPPORT_REDIRECT"
         /\ Invocations("stepHumanFeedback") = 1
         /\ (slackConfigured(env) => gate.posts = 1)

\* A support request's run has posted its redirect email and returned.
C14_Witness ==
  /\ Classified
  /\ Category = "SUPPORT"
  /\ run.status = "completed"
  /\ run.email # None
  /\ gate.posts = 1

ContentOrApproval ==
  {"stepWriteEmail", "stepGenerateFollowUpSequence", "stepHumanFeedback"}

\* C15: an inbound run calls research, enrichment and qualify in that order,
\* each after the one before has returned and with what it returned, and
\* calls no content or approval step before qualify has returned.
C15_ResearchEnrichQualifyInOrder ==
  run.kind = "inbound" =>
    /\ Len(run.log) >= 1 => run.log[1].step = "stepResearch"
    /\ Len(run.log) >= 2 =>
         /\ run.log[2].step = "stepEnrichment"
         /\ run.research # None
         /\ run.log[2].args.research = run.research
    /\ Len(run.log) >= 3 =>
         /\ run.log[3].step = "stepQualify"
         /\ run.enrichment # None
         /\ run.enrichment[1].research = run.research
         /\ run.log[3].args.research = run.research
         /\ run.log[3].args.enrichment = run.enrichment
    /\ \A i \in 1..Len(run.log) :
         run.log[i].step \in ContentOrApproval =>
           /\ i > 3
           /\ run.qualification # None
           /\ run.log[i].args.qualification = run.qualification
    /\ run.pc \in ContentOrApproval => run.qualification # None

\* A run has been through the three stages and is writing its email.
C15_Witness ==
  /\ run.kind = "inbound"
  /\ Len(run.log) = 4
  /\ run.log[4].step = "stepWriteEmail"
  /\ run.failedAt = None

Threw == run.failedAt # None

\* C16: once a step of either workflow has thrown, the run is failed: the
\* throwing step is the last one called, nothing is posted for approval, no
\* result is returned and the run is never reported complete.
C16_FailureHaltsAndPropagates ==
  Threw =>
    /\ run.status = "failed"
    /\ run.log[Len(run.log)].step = run.failedAt[1]
    /\ run.pc = run.failedAt[1]
    /\ run.result = None
    /\ gate.posts = 0
    /\ ~awaitingApproval(gate, run)

\* An outbound run whose email step threw, with Slack configured.
C16_Witness ==
  /\ run.kind = "outbound"
  /\ run.failedAt = Some("stepGenerateOutboundEmail")
  /\ run.status = "failed"
  /\ slackConfigured(env)

ApprovalStepReturned ==
  /\ run.kind \in {"inbound", "outbound"}
  /\ Invoked(approvalStep(run.kind))
  /\ ~Threw

\* C17: when SLACK_BOT_TOKEN or SLACK_SIGNING_SECRET is missing, the approval
\* step of either workflow posts nothing and approves nothing, and the run is
\* not reported complete.
C17_UnconfiguredLeavesRunAwaiting ==
  (~slackConfigured(env) /\ ApprovalStepReturned) =>
    /\ gate.posts = 0
    /\ gate.sent = 0
    /\ gate.decision = "none"
    /\ run.status # "completed"

\* C18: an email is sent, and a run counts as approved or rejected, only
\* after a decision has arrived for a run that had requested approval; the
\* steps of the workflows send nothing and decide nothing.
C18_OnlyADecisionApproves ==
  /\ gate.decision = "none" => gate.sent = 0
  /\ gate.decision \in Decisions =>
       /\ gate.resolves > 0
       /\ gate.posts > 0
       /\ Invoked(approvalStep(run.kind))
  /\ gate.sent <= gate.resolves
  /\ gate.sent > 0 => gate.decision = "approved"

\* The run posted its message and returned, and was approved afterwards.
C18_Witness ==
  /\ run.status = "completed"
  /\ gate.posts = 1
  /\ gate.resolves = 1
  /\ gate.decision = "approved"
  /\ gate.sent = 1

\* C19: a resolve on a run that is already approved, rejected or failed
\* changes neither the decision nor the emails sent, and a decision once
\* taken is never changed.
C19_ResolveIsIdempotent ==
  [][terminal(gate, run) =>
       /\ gate'.decision = gate.decision
       /\ gate'.sent = gate.sent
       /\ gate'.posts = gate.posts]_vars

\* A second decision arrived for an approved run and was ignored.
C19_Witness ==
  /\ gate.decision = "approved"
  /\ gate.sent = 1
  /\ gate.resolves = 2
  /\ gate.ignored = 1

InterruptionsAt(step) ==
  Cardinality({i \in 1..Len(run.interruptedAt) : run.interruptedAt[i] = step})
Completions(step) == Invocations(step) - InterruptionsAt(step)
OnPath(step) ==
  IF run.kind = "inbound"
  THEN \/ step \in {"stepResearch", "stepEnrichment", "stepQualify", "stepWriteEmail"}
       \/ step = "stepGenerateFollowUpSequence" /\ inboundBranch(Category) = "outreach"
       \/ step = "stepHumanFeedback" /\ inboundBranch(Category) \in {"outreach", "support"}
  ELSE \/ step \in {"stepResearchProspect", "stepQualifyProspect"}
       \/ step \in OutboundSteps /\ run.qualification[1].shouldReachOut

\* C20: a step whose result is recorded is never called again, however often
\* the run is interrupted at later steps and resumed: each step is called once
\* more than it was interrupted at most, so a posted message is repeated only
\* by an interruption of the approval step itself; and a run that returns has
\* completed each step of its path once and returns the summary of the
\* recorded qualification, as an uninterrupted run does.
C20_ResumeReusesRecordedResults ==
  /\ \A step \in InboundSteps \cup OutboundSteps : Completions(step) \in {0, 1}
  /\ gate.posts <= 1 + InterruptionsAt(approvalStep(run.kind))
  /\ run.status = "completed" =>
       /\ \A step \in (IF run.kind = "inbound" THEN InboundSteps ELSE OutboundSteps) :
            Completions(step) = IF OnPath(step) THEN 1 ELSE 0
       /\ run.result = Some(IF run.kind = "inbound"
                            THEN inboundSummary(run.qualification[1])
                            ELSE outboundSummary(run.qualification[1]))

\* A run was interrupted while writing the email, was resumed, and returned
\* having researched once and posted once.
C20_Witness ==
  /\ run.kind = "inbound"
  /\ run.interruptedAt = << "stepWriteEmail" >>
  /\ run.status = "completed"
  /\ Invocations("stepResearch") = 1
  /\ Invocations("stepWriteEmail") = 2
  /\ gate.posts = 1

\* C21: the follow-up sequence is written without the primary email: the
\* step is not handed the email and its result does not contain it, so the
\* two content steps could run in either order with the same results.
C21_FollowUpIndependentOfEmail ==
  /\ \A i \in 1..Len(run.log) :
       run.log[i].step = "stepGenerateFollowUpSequence" =>
         "email" \notin DOMAIN run.log[i].args
  /\ (run.kind = "inbound" /\ run.sequence # None) =>
       run.sequence[1].previousEmails = << >>

\* C22: the template of an email is getEmailTemplateType of the category
\* alone, a category without a case of its own gets NURTURE, and every one of
\* the 7 template kinds is the template of some category.
C22_EveryTemplateKindSelected ==
  (Classified /\ run.email # None) =>
    /\ run.email[1].templateType = getEmailTemplateType(Category)
    /\ Category \in {"COLD_LEAD", "UNQUALIFIED"} =>
         run.email[1].templateType = "NURTURE"
    /\ \A kind \in EmailTemplateTypes :
         \E category \in Categories : getEmailTemplateType(category) = kind

InEnumerationsAndRange(o) ==
  /\ o.category \in Categories
  /\ o.priority \in Priorities
  /\ o.leadScore \in 0..100
SchemaError == run.error # None /\ run.error[1].name = "NoObjectGeneratedError"

\* C23: a classification whose category or priority is outside the
\* enumerations or whose score is outside 0..100 is never routed and never
\* handed to a content or approval step: stepQualify fails on it, and the
\* run is failed with no qualification recorded.
C23_OffSchemaNeverPassedOn ==
  /\ (run.kind = "inbound" /\ run.qualification # None) =>
       InEnumerationsAndRange(run.qualification[1])
  /\ \A i \in 1..Len(run.log) :
       run.log[i].step \in ContentOrApproval =>
         InEnumerationsAndRange(run.log[i].args.qualification[1])
  /\ SchemaError =>
       /\ ~InEnumerationsAndRange(run.error[1].value)
       /\ run.status = "failed"
       /\ run.failedAt = Some("stepQualify")
       /\ run.qualification = None
       /\ run.log[Len(run.log)].step = "stepQualify"
       /\ accepted = NoneAccepted(configuredTeam)

\* The model answered a hot lead with a score of 101 and stepQualify failed.
C23_Witness ==
  /\ SchemaError
  /\ run.error[1].value.category = "HOT_LEAD"
  /\ run.error[1].value.priority = "URGENT"
  /\ run.error[1].value.leadScore = 101
  /\ run.status = "failed"
  /\ Len(salesTeam) > 0

Answered == response # None
Status == response[1].status
Malformed == request.text = "malformed"
ValidBody == request.text = "json" /\ outboundProspectSchema(request.body[1])

\* C24: POST answers 200 only for a body that satisfies the schema, having
\* started the outbound workflow once; it answers 400 for every body that
\* does not, and 500 when the request is not JSON or start throws, with no
\* workflow started in either case; nothing is started before it answers.
C24_RouteValidatesThenStartsOnce ==
  /\ ~Answered => (starts = 0 /\ run = NoRun)
  /\ Answered =>
       /\ Status \in {200, 400, 500}
       /\ Status = 200 <=> (starts = 1 /\ run.kind = "outbound")
       /\ Status = 200 => ValidBody
       /\ Status # 200 => (starts = 0 /\ run = NoRun)
       /\ Status = 400 <=> (~Malformed /\ ~ValidBody)
       /\ Malformed => Status = 500

\* A valid body without campaignType was answered 200 and its run returned.
C24_Witness ==
  /\ Answered
  /\ Status = 200
  /\ request.body[1].campaignType = missing
  /\ starts = 1
  /\ run.status = "completed"

Outreach3 ==
  {"stepGenerateOutboundEmail", "stepGenerateMultiTouchSequence",
   "stepReviewOutbound"}
Qualified == run.kind = "outbound" /\ run.qualification # None

\* C25: the outbound workflow writes the email, then the sequence, then asks
\* for the review, each once, only for a prospect qualified with
\* shouldReachOut; for any other prospect none of the three is called and
\* the run returns qualified: false with the reason of the qualification.
C25_OutreachOnlyWhenShouldReachOut ==
  run.kind = "outbound" =>
    /\ \A step \in Outreach3 :
         (Invoked(step) \/ run.pc = step) =>
           (Qualified /\ run.qualification[1].shouldReachOut)
    /\ \A step \in Outreach3 : Invocations(step) <= 1
    /\ Invoked("stepGenerateMultiTouchSequence") =>
         /\ run.email # None
         /\ Position("stepGenerateOutboundEmail")
              < Position("stepGenerateMultiTouchSequence")
    /\ Invoked("stepReviewOutbound") =>
         /\ run.sequence # None
         /\ Position("stepGenerateMultiTouchSequence")
              < Position("stepReviewOutbound")
    /\ run.status = "completed" =>
         IF run.qualification[1].shouldReachOut
         THEN /\ \A step \in Outreach3 : Invocations(step) = 1
              /\ run.result[1].qualified
         ELSE /\ \A step \in Outreach3 : ~Invoked(step)
              /\ gate.posts = 0
              /\ run.result[1] =
                   [qualified |-> FALSE, reason |-> run.qualification[1].reason]

\* A prospect without budget was turned down and the run returned.
C25_Witness ==
  /\ Qualified
  /\ ~run.qualification[1].shouldReachOut
  /\ run.qualification[1].reason = "no budget"
  /\ run.status = "completed"
  /\ run.result[1].reason = "no budget"

\* ---------------------------------------- further claims on the router
HotRuleYields(team, q) == HotOrUrgent(q) /\ findBestEnterpriseAE(team, q) # Null
EnterpriseRuleYields(team, q) ==
  q.companySize = "ENTERPRISE" /\ findBestEnterpriseAE(team, q) # Null
Specialists(team, q) ==
  {i \in 1..Len(team) : q.industry # Undefined /\ q.industry \in team[i].industries}
LeastLoadedOf(team, i, among) ==
  i \in among /\ \A j \in among : Load(team, i) <= Load(team, j)

\* C26: when neither the hot/urgent rule nor the enterprise-size rule yields
\* a worker, routeLead on a non-empty team returns a least-loaded worker among
\* those of any role that list the industry, if the industry is set and some
\* worker lists it, and a least-loaded worker of the whole team otherwise.
C26_FallThroughToIndustryThenDefault ==
  (/\ lastCall.op = "routeLead"
   /\ Len(salesTeam) > 0
   /\ ~HotRuleYields(salesTeam, input)
   /\ ~EnterpriseRuleYields(salesTeam, input))
    => IF Specialists(salesTeam, input) # {}
       THEN LeastLoadedOf(salesTeam, lastCall.assignedTo,
                          Specialists(salesTeam, input))
       ELSE LeastLoadedOf(salesTeam, lastCall.assignedTo, 1..Len(salesTeam))

PreferenceSelected ==
  /\ lastCall.op = "routeLead"
  /\ routeLeadTrace(salesTeam, input).rule \in {"HOT_URGENT", "ENTERPRISE"}
  /\ Len(industryCapacityMatches(salesTeam, input)) > 0

\* C27: a worker selected by the industry-and-capacity preference has a
\* current load strictly below its capacity ceiling, or no ceiling set; a
\* ceiling of 0 is a set ceiling.
C27_PreferredWorkerBelowCeiling ==
  PreferenceSelected => BelowCapacity(salesTeam[lastCall.assignedTo])

\* ---------------------------------------- further claims on qualify
Done(r) == leads[r].pc = "done"
NoSpecialRule(r) == routeLeadTrace(salesTeam, leads[r].object).rule = "DEFAULT"
SameClassification(r1, r2) ==
  /\ leads[r1].object.category = leads[r2].object.category
  /\ leads[r1].object.priority = leads[r2].object.priority
  /\ leads[r1].object.industry = leads[r2].object.industry
  /\ leads[r1].object.companySize = leads[r2].object.companySize

\* C28: two leads that match no special rule, qualified against the same
\* team of two or more, are assigned to different reps.
C28_DefaultLeadsRotate ==
  \A r1, r2 \in Runs :
    (r1 # r2 /\ Done(r1) /\ Done(r2) /\ NoSpecialRule(r1) /\ NoSpecialRule(r2)
       /\ Len(salesTeam) >= 2)
      => leads[r1].object.assignedTo.name # leads[r2].object.assignedTo.name

BranchesWithFollowUp == {"HOT_LEAD", "QUALIFIED", "WARM_LEAD", "FOLLOW_UP", "PARTNER"}
BranchesWithApproval == BranchesWithFollowUp \cup {"SUPPORT"}

\* C30: an inbound run that has a classification writes at most one primary
\* email and asks for approval at most once; a run that returns took the one
\* branch of its category: it wrote exactly one email, wrote the follow-up
\* sequence and asked for approval exactly when its branch does, and returned
\* the summary of the qualification.
C30_OneBranchPerCategory ==
  Classified =>
    /\ Category \in Categories
    /\ Invocations("stepWriteEmail") <= 1
    /\ Invocations("stepHumanFeedback") <= 1
    /\ gate.posts <= 1
    /\ run.status = "completed" =>
         /\ Invocations("stepWriteEmail") = 1
         /\ run.email # None
         /\ Invoked("stepGenerateFollowUpSequence")
              <=> Category \in BranchesWithFollowUp
         /\ Invoked("stepHumanFeedback") <=> Category \in BranchesWithApproval
         /\ run.result[1].category = Category
         /\ run.result[1].priority = run.qualification[1].priority
         /\ run.result[1].leadScore = run.qualification[1].leadScore
         /\ run.result[1].assignedTo = run.qualification[1].assignedTo

\* A cold lead scored 0 was written its one email and the run returned the
\* summary with the router's assignee.
C30_Witness ==
  /\ Classified
  /\ Category = "COLD_LEAD"
  /\ run.status = "completed"
  /\ Invocations("stepWriteEmail") = 1
  /\ run.result[1].leadScore = 0
  /\ run.result[1].assignedTo.by = "router"
====
